---- MODULE Spec2Model ----
(***************************************************************************)
(* Model of casper's resolution engine: the component registry and its     *)
(* topological sort (src/src/component.ts) and the entity resolver with    *)
(* its error accumulator (src/src/schema/index.ts).                        *)
(*                                                                         *)
(* JS objects used as maps (EntityMap, Manifest, ErrorMap, passed) are     *)
(* functions whose DOMAIN is the object's key set; arrays are sequences.   *)
(* A component is identified by its KEY: every schema module registers one *)
(* singleton component under its own facet key.                            *)
(***************************************************************************)
EXTENDS Integers, Sequences, FiniteSets, TLC

\* ------------------------------------------------------------------ bounds
MaxComps == 3     \* components registered before a run
MaxEnt == 2       \* raw records handed to resolveEntities
MaxReq == 2       \* REQUIRES entries over the registry of a resolver run
MaxDeps == 2      \* REQUIRES + WAIT_FOR entries over the registry of a sort run
MaxFacets == 2    \* facet keys present over all input records
MaxSorts == 2     \* Component.all() calls of a sort run

KeyPool == <<"damage", "weapon", "brief", "price">>
IdPool == <<"a", "b", "c">>
NamePool == <<"First", "Second", "Third">>

Min(a, b) == IF a < b THEN a ELSE b
Keys == {KeyPool[i] : i \in 1..Min(MaxComps, Len(KeyPool))}
Ids == {IdPool[i] : i \in 1..Min(MaxEnt, Len(IdPool))}

\* ------------------------------------------------------------- JS helpers
Range(s) == {s[i] : i \in 1..Len(s)}

\* Array.prototype.indexOf, 1-based; 0 stands for JS -1
indexOf(s, x) ==
    IF \E i \in 1..Len(s) : s[i] = x
    THEN CHOOSE i \in 1..Len(s) : s[i] = x /\ \A j \in 1..(i - 1) : s[j] # x
    ELSE 0

\* Array.prototype.splice(i, 1) at 1-based position i
splice(s, i) == [j \in 1..(Len(s) - 1) |-> IF j < i THEN s[j] ELSE s[j + 1]]

\* Array.from(new Set(s)): first occurrences, in order
RECURSIVE ArrayFromSet(_)
ArrayFromSet(s) ==
    IF s = <<>> THEN <<>>
    ELSE LET front == ArrayFromSet(SubSeq(s, 1, Len(s) - 1))
             x == s[Len(s)]
         IN IF x \in Range(front) THEN front ELSE Append(front, x)

EmptyMap == [x \in {} |-> <<>>]
Put(m, k, v) == [x \in (DOMAIN m) \cup {k} |-> IF x = k THEN v ELSE m[x]]
\* a delete that leaves the key in place
DeleteNothing(m, k) == m
Delete(m, k) == [x \in (DOMAIN m) \ {k} |-> m[x]]

VARIABLES
    list,        \* Component.list: the registry, in registration order
    errors,      \* module-level ErrorMap of schema/index.ts
    ent,         \* argument of resolveEntities
    d,           \* id -> raw record (EntityMap)
    out,         \* id -> entity (Manifest)
    okeys,       \* property order of out's keys (insertion order)
    passed,      \* KEY -> array of ids
    components,  \* result of Component.all()
    ci,          \* position of the outer loop in components
    todo,        \* rest of the Object.entries(out) snapshot of this pass
    ei,          \* position of the dedup loop in ent
    pc,          \* "load" | "dedup" | "seed" | "pass" | "ents" | "done"
    run,         \* number of the resolveEntities call in this process
    first,       \* manifest and error map as the first call left them
    failed,      \* history: id -> position in calls of the call that threw
    calls,       \* history: <<KEY, id>> of every Component.resolve call
    sorts        \* history: number of Component.all() calls made on their own

vars == <<list, errors, ent, d, out, okeys, passed, components, ci, todo, ei,
          pc, run, first, failed, calls, sorts>>

\* ------------------------------------------------------ component registry
ListKeys == {list[i].KEY : i \in 1..Len(list)}

\* list.filter(...).map((c) => c.KEY): the keys of the HOIST components
\* (flag "HOIST") or of the components that are not SINK (flag "SINK")
RECURSIVE FilterKeys(_, _)
FilterKeys(l, flag) ==
    IF l = <<>> THEN <<>>
    ELSE LET c == l[1]
             isIn == IF flag = "HOIST" THEN c.HOIST ELSE ~c.SINK
         IN (IF isIn THEN <<c.KEY>> ELSE <<>>) \o FilterKeys(Tail(l), flag)

\* dependencies without the REQUIRES keys
dependenciesMinusRequires(c) ==
    LET hoists == IF c.HOIST THEN <<>> ELSE FilterKeys(list, "HOIST")
        sinks == IF c.SINK THEN FilterKeys(list, "SINK") ELSE <<>>
    IN ArrayFromSet(c.WAIT_FOR \o hoists \o sinks)

\* dependencies without the HOIST keys a non-HOIST component waits for
dependenciesMinusHoists(c) ==
    LET sinks == IF c.SINK THEN FilterKeys(list, "SINK") ELSE <<>>
    IN ArrayFromSet(c.WAIT_FOR \o c.REQUIRES \o sinks)

\* dependencies that leave out the keys of no registered component
dependenciesRegisteredOnly(c) ==
    LET hoists == IF c.HOIST THEN <<>> ELSE FilterKeys(list, "HOIST")
        sinks == IF c.SINK THEN FilterKeys(list, "SINK") ELSE <<>>
    IN SelectSeq(ArrayFromSet(c.WAIT_FOR \o c.REQUIRES \o hoists \o sinks),
                 LAMBDA k : k \in ListKeys)

\* Component.dependencies(c)
dependencies(c) ==
    LET wait_for == c.WAIT_FOR
        requires == c.REQUIRES
        hoists == IF c.HOIST THEN <<>> ELSE FilterKeys(list, "HOIST")
        sinks == IF c.SINK THEN FilterKeys(list, "SINK") ELSE <<>>
    IN ArrayFromSet(wait_for \o requires \o hoists \o sinks)

\* The for (var m of _list) loop of Component.all for the popped node n:
\* dep is the array of the dep arrays of _list, stack is no_edges (positions
\* in _list), m the position the loop is at.
RECURSIVE FreeLoop(_, _, _, _)
FreeLoop(dep, stack, key, m) ==
    IF m > Len(dep) THEN [dep |-> dep, no_edges |-> stack]
    ELSE LET i == indexOf(dep[m], key)
         IN IF i >= 1
            THEN LET spliced == splice(dep[m], i)
                 IN FreeLoop([dep EXCEPT ![m] = spliced],
                             IF spliced = <<>> THEN Append(stack, m) ELSE stack,
                             key, m + 1)
            ELSE FreeLoop(dep, stack, key, m + 1)

\* The while (no_edges.length > 0) loop of Component.all
RECURSIVE Kahn(_, _, _)
Kahn(dep, no_edges, sorted) ==
    IF no_edges = <<>> THEN [sorted |-> sorted, dep |-> dep]
    ELSE LET n == no_edges[Len(no_edges)]
             popped == SubSeq(no_edges, 1, Len(no_edges) - 1)
             freed == FreeLoop(dep, popped, list[n].KEY, 1)
         IN Kahn(freed.dep, freed.no_edges, Append(sorted, n))

\* The body of Component.all() up to the end of the while loop: the positions
\* in _list of the nodes pushed to out, and the dep arrays as the splices left
\* them
allLoop ==
    LET dep == [i \in 1..Len(list) |-> dependencies(list[i])]
        no_edges == SelectSeq([i \in 1..Len(list) |-> i], LAMBDA i : dep[i] = <<>>)
    IN Kahn(dep, no_edges, <<>>)

\* a dep array that is the WAIT_FOR array of the component itself
depArrayIsWaitFor(c) == "WAIT_FOR"

\* The array of component c that _list[i].dep is: Array.from(new Set(...))
\* builds a new array, so it is none of them
depArray(c) == "new"

\* The registry after Component.all(): m.dep.splice changes an array of a
\* component only where dep is that array
listAfterAll ==
    [i \in 1..Len(list) |->
        IF depArray(list[i]) = "WAIT_FOR"
        THEN [list[i] EXCEPT !.WAIT_FOR = allLoop.dep[i]]
        ELSE list[i]]

\* Component.all(): out.map((c) => c.node), the nodes being the registered
\* components themselves
all ==
    LET sorted == allLoop.sorted
    IN [j \in 1..Len(sorted) |-> listAfterAll[sorted[j]]]

\* Component.register(c)
Register(c) ==
    /\ pc = "load"
    /\ list' = IF c \in Range(list) THEN list ELSE Append(list, c)
    /\ UNCHANGED <<errors, ent, d, out, okeys, passed, components, ci, todo,
                   ei, pc, run, first, failed, calls, sorts>>

\* ------------------------------------------------------------ error sink
\* Error messages are kept as the tuple of the parts of their template string.
DuplicateMsg(e, kept) == <<"Duplicate id", e.id, e.name, kept.name>>
RequiresMsg(id, r, key) == <<id, "does not contain", r, "which is a requirement for", key>>
TypeErrorMsg(r) == <<"TypeError", "Cannot read properties of undefined", r>>
ThrownMsg(key, data) == <<"Error", key, data>>

\* an error sink that drops a message the key already holds
errorOnce(errs, key, err) ==
    LET had == IF key \in DOMAIN errs THEN errs[key] ELSE <<>>
    IN IF err \in Range(had) THEN errs ELSE Put(errs, key, had \o <<err>>)

\* an error sink that puts the new message in front of the earlier ones
errorPrepend(errs, key, err) ==
    LET had == IF key \in DOMAIN errs THEN errs[key] ELSE <<>>
    IN Put(errs, key, <<err>> \o had)

\* error(key, err) for a single string err: the result is the new errors map
error(errs, key, err) ==
    LET had == IF key \in DOMAIN errs THEN errs[key] ELSE <<>>
    IN Put(errs, key, had \o <<err>>)

\* clearErrors()
ClearErrors ==
    /\ pc = "done"
    /\ errors # EmptyMap
    /\ errors' = EmptyMap
    /\ UNCHANGED <<list, ent, d, out, okeys, passed, components, ci, todo, ei,
                   pc, run, first, failed, calls, sorts>>

\* ------------------------------------------------------ Component.resolve
Undefined == "undefined"
NoThrow == <<>>

\* c.process: the default passthrough, or a validating hook that rejects "bad"
process(c, data) ==
    IF c.process = "validate" /\ data = "bad"
    THEN [thrown |-> <<ThrownMsg(c.KEY, data)>>, value |-> Undefined]
    ELSE [thrown |-> NoThrow, value |-> data]

\* a requirement check that looks at REQUIRES[0] only
CheckRequiresFirstOnly(reqs, psd, id, key) ==
    IF reqs = <<>> THEN NoThrow
    ELSE IF reqs[1] \notin DOMAIN psd THEN <<TypeErrorMsg(reqs[1])>>
    ELSE IF id \notin Range(psd[reqs[1]]) THEN <<RequiresMsg(id, reqs[1], key)>>
    ELSE NoThrow

\* c.REQUIRES?.forEach: the first failing check throws
RECURSIVE CheckRequires(_, _, _, _)
CheckRequires(reqs, psd, id, key) ==
    IF reqs = <<>> THEN NoThrow
    ELSE LET r == reqs[1]
         IN IF r \notin DOMAIN psd THEN <<TypeErrorMsg(r)>>
            ELSE IF id \notin Range(psd[r]) THEN <<RequiresMsg(id, r, key)>>
            ELSE CheckRequires(Tail(reqs), psd, id, key)

\* a resolve that calls transform with an undefined output as well
resolveAlwaysWrites(c, id, data, parent, psd) ==
    IF c.KEY \in DOMAIN data
    THEN LET pushed == [psd EXCEPT ![c.KEY] = Append(@, id)]
             req == CheckRequires(c.REQUIRES, pushed, id, c.KEY)
             o == process(c, data[c.KEY])
         IN IF req # NoThrow
            THEN [passed |-> pushed, parent |-> parent, thrown |-> req]
            ELSE IF o.thrown # NoThrow
            THEN [passed |-> pushed, parent |-> parent, thrown |-> o.thrown]
            ELSE [passed |-> pushed, parent |-> Put(parent, c.KEY, o.value),
                  thrown |-> NoThrow]
    ELSE [passed |-> psd, parent |-> parent, thrown |-> NoThrow]

\* a resolve that checks REQUIRES before it looks at the trigger
resolveRequiresUntriggered(c, id, data, parent, psd) ==
    LET fired == c.KEY \in DOMAIN data
        pushed == IF fired THEN [psd EXCEPT ![c.KEY] = Append(@, id)] ELSE psd
        req == CheckRequires(c.REQUIRES, pushed, id, c.KEY)
    IN IF req # NoThrow
       THEN [passed |-> pushed, parent |-> parent, thrown |-> req]
       ELSE IF ~fired
       THEN [passed |-> psd, parent |-> parent, thrown |-> NoThrow]
       ELSE LET o == process(c, data[c.KEY])
            IN IF o.thrown # NoThrow
               THEN [passed |-> pushed, parent |-> parent, thrown |-> o.thrown]
               ELSE IF o.value # Undefined
               THEN [passed |-> pushed, parent |-> Put(parent, c.KEY, o.value),
                     thrown |-> NoThrow]
               ELSE [passed |-> pushed, parent |-> parent, thrown |-> NoThrow]

\* a resolve that records the id as passed only when it wrote an output
resolvePushOnWrite(c, id, data, parent, psd) ==
    IF c.KEY \in DOMAIN data
    THEN LET pushed == [psd EXCEPT ![c.KEY] = Append(@, id)]
             req == CheckRequires(c.REQUIRES, pushed, id, c.KEY)
             o == process(c, data[c.KEY])
         IN IF req # NoThrow
            THEN [passed |-> pushed, parent |-> parent, thrown |-> req]
            ELSE IF o.thrown # NoThrow
            THEN [passed |-> pushed, parent |-> parent, thrown |-> o.thrown]
            ELSE IF o.value # Undefined
            THEN [passed |-> pushed, parent |-> Put(parent, c.KEY, o.value),
                  thrown |-> NoThrow]
            ELSE [passed |-> psd, parent |-> parent, thrown |-> NoThrow]
    ELSE [passed |-> psd, parent |-> parent, thrown |-> NoThrow]

\* Component.resolve(c, ctx) with ctx.id = id, ctx.data = data,
\* ctx.parent = parent, ctx.passed = psd. The result holds the objects the
\* call mutated (passed, parent) and what it threw.
resolve(c, id, data, parent, psd) ==
    IF c.KEY \in DOMAIN data
    THEN LET pushed == [psd EXCEPT ![c.KEY] = Append(@, id)]
             req == CheckRequires(c.REQUIRES, pushed, id, c.KEY)
             cData == data[c.KEY]
             o == process(c, cData)
         IN IF req # NoThrow
            THEN [passed |-> pushed, parent |-> parent, thrown |-> req]
            ELSE IF o.thrown # NoThrow
            THEN [passed |-> pushed, parent |-> parent, thrown |-> o.thrown]
            ELSE IF o.value # Undefined
            THEN [passed |-> pushed, parent |-> Put(parent, c.KEY, o.value),
                  thrown |-> NoThrow]
            ELSE [passed |-> pushed, parent |-> parent, thrown |-> NoThrow]
    ELSE [passed |-> psd, parent |-> parent, thrown |-> NoThrow]

\* --------------------------------------------------------- resolveEntities
NoFirst == [out |-> EmptyMap, errors |-> EmptyMap, start |-> EmptyMap]

\* Entry of resolveEntities(e): var d = {}
Enter(e) ==
    /\ ent' = e
    /\ d' = EmptyMap
    /\ out' = EmptyMap
    /\ okeys' = <<>>
    /\ passed' = EmptyMap
    /\ components' = <<>>
    /\ ci' = 1
    /\ todo' = <<>>
    /\ ei' = 1
    /\ pc' = "dedup"
    /\ run' = run + 1
    /\ failed' = EmptyMap
    /\ calls' = <<>>
    /\ UNCHANGED <<list, errors, sorts>>

\* First call of the process
Call(e) ==
    /\ pc = "load"
    /\ first' = first
    /\ Enter(e)

\* A second call on the same records with the same registry
Rerun ==
    /\ pc = "done"
    /\ run = 1
    /\ first' = [first EXCEPT !.start = errors]
    /\ Enter(ent)

\* a dedup loop in which the later record replaces the kept one
keepLast(dmap, e) == Put(dmap, e.id, e)

\* if (e.id in d) ... else d[e.id] = e
keep(dmap, e) == IF e.id \in DOMAIN dmap THEN dmap ELSE Put(dmap, e.id, e)

\* One iteration of for (var e of ent): the first record of an id is kept
DedupStep ==
    /\ pc = "dedup"
    /\ ei <= Len(ent)
    /\ LET e == ent[ei]
       IN /\ d' = keep(d, e)
          /\ IF e.id \in DOMAIN d
             THEN /\ errors' = error(errors, e.id, DuplicateMsg(e, d[e.id]))
                  /\ UNCHANGED okeys
             ELSE /\ okeys' = Append(okeys, e.id)
                  /\ UNCHANGED errors
    /\ ei' = ei + 1
    /\ UNCHANGED <<list, ent, out, passed, components, ci, todo, pc, run,
                   first, failed, calls, sorts>>

\* After the dedup loop: seed the manifest, passed = {}, Component.all()
Seed ==
    /\ pc = "dedup"
    /\ ei > Len(ent)
    /\ out' = [k \in DOMAIN d |-> EmptyMap]
    /\ passed' = EmptyMap
    /\ components' = all
    /\ list' = listAfterAll
    /\ ci' = 1
    /\ pc' = "pass"
    /\ UNCHANGED <<errors, ent, d, okeys, todo, ei, run, first, failed, calls,
                   sorts>>

\* a snapshot taken from the ids of the input records instead of the manifest
RECURSIVE IdsOf(_)
IdsOf(input) ==
    IF input = <<>> THEN <<>>
    ELSE LET front == IdsOf(SubSeq(input, 1, Len(input) - 1))
             x == input[Len(input)].id
         IN IF x \in Range(front) THEN front ELSE Append(front, x)
entriesOfInput(keys, input) == IdsOf(input)

\* a snapshot that holds the first key of the manifest only
entriesFirstOnly(keys, input) == IF keys = <<>> THEN <<>> ELSE <<keys[1]>>

\* Object.entries(out): the keys the manifest has now (keys), not the ids of
\* the input records (input)
entries(keys, input) == keys

\* Head of for (const comp of components): passed[comp.KEY] = [] and the
\* Object.entries(out) snapshot the inner loop walks
BeginPass ==
    /\ pc = "pass"
    /\ ci <= Len(components)
    /\ passed' = Put(passed, components[ci].KEY, <<>>)
    /\ todo' = entries(okeys, ent)
    /\ IF okeys = <<>>
       THEN pc' = "pass" /\ ci' = ci + 1
       ELSE pc' = "ents" /\ ci' = ci
    /\ UNCHANGED <<list, errors, ent, d, out, okeys, components, ei, run,
                   first, failed, calls, sorts>>

\* a splice loop that stops after the first passed-set it pruned
PruneFirstFound(psd, id) ==
    LET holders == {k \in DOMAIN psd : id \in Range(psd[k])}
        k1 == CHOOSE k \in holders :
                \A k2 \in holders : indexOf(KeyPool, k) <= indexOf(KeyPool, k2)
    IN IF holders = {} THEN psd
       ELSE [psd EXCEPT ![k1] = splice(@, indexOf(@, id))]

\* a splice loop that empties every passed-set holding the id
PruneReset(psd, id) ==
    [k \in DOMAIN psd |-> IF id \in Range(psd[k]) THEN <<>> ELSE psd[k]]

\* a catch block without the splice loop
PruneNothing(psd, id) == psd

\* The splice loop of the catch block: for (var k in passed)
Prune(psd, id) ==
    [k \in DOMAIN psd |->
        LET i == indexOf(psd[k], id)
        IN IF i >= 1 THEN splice(psd[k], i) ELSE psd[k]]

\* One iteration of the inner loop: Component.resolve in its try/catch
ResolveStep ==
    /\ pc = "ents"
    /\ todo # <<>>
    /\ LET k == Head(todo)
           comp == components[ci]
           r == resolve(comp, k, d[k].data, out[k], passed)
       IN /\ calls' = Append(calls, <<comp.KEY, k>>)
          /\ IF r.thrown = NoThrow
             THEN /\ out' = [out EXCEPT ![k] = r.parent]
                  /\ passed' = r.passed
                  /\ UNCHANGED <<errors, d, okeys, failed>>
             ELSE /\ errors' = error(errors, k, r.thrown[1])
                  /\ out' = Delete(out, k)
                  /\ d' = Delete(d, k)
                  /\ okeys' = SelectSeq(okeys, LAMBDA x : x # k)
                  /\ passed' = Prune(r.passed, k)
                  /\ failed' = Put(failed, k, Len(calls) + 1)
    /\ todo' = Tail(todo)
    /\ IF Tail(todo) = <<>>
       THEN pc' = "pass" /\ ci' = ci + 1
       ELSE pc' = "ents" /\ ci' = ci
    /\ UNCHANGED <<list, ent, components, ei, run, first, sorts>>

\* return out
Return ==
    /\ pc = "pass"
    /\ ci > Len(components)
    /\ pc' = "done"
    /\ first' = IF run = 1 THEN [NoFirst EXCEPT !.out = out, !.errors = errors]
                ELSE first
    /\ UNCHANGED <<list, errors, ent, d, out, okeys, passed, components, ci,
                   todo, ei, run, failed, calls, sorts>>

\* Component.all() on its own, any number of times once the registry is
\* complete, for the claims about the order
Sort ==
    /\ pc \in {"load", "sorted"}
    /\ sorts < MaxSorts
    /\ components' = all
    /\ list' = listAfterAll
    /\ pc' = "sorted"
    /\ sorts' = sorts + 1
    /\ UNCHANGED <<errors, ent, d, out, okeys, passed, ci, todo, ei, run,
                   first, failed, calls>>

\* ------------------------------------------------------- bounded families
\* Arrays of at most n distinct elements of S
DistinctSeqs(S, n) ==
    UNION {{s \in [1..k -> S] : \A i, j \in 1..k : i # j => s[i] # s[j]} : k \in 0..n}

RECURSIVE SumLen(_, _)
SumLen(l, field) ==
    IF l = <<>> THEN 0
    ELSE Len(IF field = "REQUIRES" THEN l[1].REQUIRES ELSE l[1].WAIT_FOR)
         + SumLen(Tail(l), field)

\* Components of resolver runs: facet processors with REQUIRES. They register
\* in the import order of schema/index.ts (KeyPool order), and either all use
\* the default process or all use the validating hook.
RunComps ==
    {[KEY |-> k, REQUIRES |-> r, WAIT_FOR |-> <<>>, HOIST |-> FALSE,
      SINK |-> FALSE, process |-> p] :
        k \in Keys, r \in DistinctSeqs(Keys, MaxReq), p \in {"default", "validate"}}

FitsRun(c) ==
    \/ c \in Range(list)
    \/ /\ Len(list) < Min(MaxComps, Len(KeyPool))
       /\ c.KEY = KeyPool[Len(list) + 1]
       /\ c.KEY \notin Range(c.REQUIRES)
       /\ list # <<>> => c.process = list[1].process
       /\ SumLen(list, "REQUIRES") + Len(c.REQUIRES) <= MaxReq

\* Components of sort runs: every ordering attribute, registered in any order
SortDeps ==
    {p \in DistinctSeqs(Keys, MaxDeps) \X DistinctSeqs(Keys, MaxDeps) :
        Len(p[1]) + Len(p[2]) <= MaxDeps}

SortComps ==
    {[KEY |-> k, REQUIRES |-> p[1], WAIT_FOR |-> p[2], HOIST |-> h, SINK |-> s,
      process |-> "default"] :
        k \in Keys, p \in SortDeps, h \in BOOLEAN, s \in BOOLEAN}

FitsSort(c) ==
    \/ c \in Range(list)
    \/ /\ Len(list) < MaxComps
       /\ c.KEY \notin ListKeys
       /\ SumLen(list, "REQUIRES") + SumLen(list, "WAIT_FOR")
            + Len(c.REQUIRES) + Len(c.WAIT_FOR) <= MaxDeps

\* Raw records: the i-th record is named NamePool[i] and carries, under each
\* facet key it has, its own name as the value, undefined, or "bad"
Payloads(i) == {NamePool[i], Undefined, "bad"}
Data(i, m) ==
    UNION {[S -> Payloads(i)] : S \in {T \in SUBSET Keys : Cardinality(T) <= m}}
Records(i, m) ==
    {[id |-> IdPool[j], name |-> NamePool[i], data |-> f] :
        j \in 1..Min(i, Len(IdPool)), f \in Data(i, m)}

RECURSIVE Facets(_)
Facets(e) ==
    IF e = <<>> THEN 0 ELSE Cardinality(DOMAIN e[1].data) + Facets(Tail(e))

RECURSIVE InputsOf(_)
InputsOf(n) ==
    IF n = 0 THEN {<<>>}
    ELSE UNION {{Append(s, r) : r \in Records(n, MaxFacets - Facets(s))} :
                  s \in InputsOf(n - 1)}

Inputs == UNION {InputsOf(n) : n \in 0..Min(MaxEnt, Len(NamePool))}

\* ---------------------------------------------------------- specifications
Init ==
    /\ list = <<>>
    /\ errors = EmptyMap
    /\ ent = <<>>
    /\ d = EmptyMap
    /\ out = EmptyMap
    /\ okeys = <<>>
    /\ passed = EmptyMap
    /\ components = <<>>
    /\ ci = 1
    /\ todo = <<>>
    /\ ei = 1
    /\ pc = "load"
    /\ run = 0
    /\ first = NoFirst
    /\ failed = EmptyMap
    /\ calls = <<>>
    /\ sorts = 0

RegisterRun == pc = "load" /\ \E c \in RunComps : FitsRun(c) /\ Register(c)
RegisterSort == pc = "load" /\ \E c \in SortComps : FitsSort(c) /\ Register(c)
CallAny == pc = "load" /\ \E e \in Inputs : Call(e)

\* One call of resolveEntities after the schema modules registered
Next ==
    \/ RegisterRun
    \/ CallAny
    \/ DedupStep
    \/ Seed
    \/ BeginPass
    \/ ResolveStep
    \/ Return

Spec == Init /\ [][Next]_vars

\* Two calls in one process, with or without clearErrors() in between
NextTwice ==
    \/ RegisterRun
    \/ CallAny
    \/ DedupStep
    \/ Seed
    \/ BeginPass
    \/ ResolveStep
    \/ Return
    \/ ClearErrors
    \/ Rerun

SpecTwice == Init /\ [][NextTwice]_vars

\* Component.all() over registries with every ordering attribute
NextSort ==
    \/ RegisterSort
    \/ Sort

SpecSort == Init /\ [][NextSort]_vars

\* ------------------------------------------------------------------ claims
Before(A, j) == \E i \in 1..(j - 1) : components[i] = A
Needs(B) == Range(B.REQUIRES) \cup Range(B.WAIT_FOR)

\* C5: in the order returned by Component.all, a component B whose REQUIRES or
\* WAIT_FOR contains the KEY of a registered component A comes strictly after A.
C5_OrderRespectsDependencies ==
    pc = "sorted" =>
        \A j \in 1..Len(components) : \A A \in Range(list) :
            A.KEY \in Needs(components[j]) => Before(A, j)

\* A returned order in which a component registered first follows the later
\* registered component it REQUIRES, and another one follows its WAIT_FOR
C5_Witness ==
    /\ pc = "sorted"
    /\ Len(list) = 3
    /\ Len(components) = 3
    /\ list[2].KEY \in Range(list[1].REQUIRES)
    /\ list[3].KEY \in Range(list[2].WAIT_FOR)
    /\ components = <<list[3], list[2], list[1]>>

\* C6: in the order returned by Component.all, every HOIST component precedes
\* every component without HOIST, and every SINK component follows every
\* component without SINK.
C6_HoistSinkPlacement ==
    pc = "sorted" =>
        /\ \A i, j \in 1..Len(components) :
              /\ (components[i].HOIST /\ ~components[j].HOIST) => i < j
              /\ (~components[i].SINK /\ components[j].SINK) => i < j
        /\ \A j \in 1..Len(components) : \A A \in Range(list) :
              /\ (A.HOIST /\ ~components[j].HOIST) => Before(A, j)
              /\ (~A.SINK /\ components[j].SINK) => Before(A, j)

\* A returned order of three components in which the last registered one is
\* hoisted to the front and the first registered one is sunk to the end
C6_Witness ==
    /\ pc = "sorted"
    /\ Len(list) = 3
    /\ list[1].SINK /\ ~list[1].HOIST
    /\ ~list[2].SINK /\ ~list[2].HOIST
    /\ list[3].HOIST /\ ~list[3].SINK
    /\ components = <<list[3], list[2], list[1]>>

\* ---- resolver claims: shared vocabulary
InputIds == {ent[i].id : i \in 1..Len(ent)}
FirstIndex(id) ==
    CHOOSE i \in 1..Len(ent) : ent[i].id = id /\ \A j \in 1..(i - 1) : ent[j].id # id
FirstRecord(id) == ent[FirstIndex(id)]
ErrorsOf(errs, id) == IF id \in DOMAIN errs THEN errs[id] ELSE <<>>
Others(s, id) == SelectSeq(s, LAMBDA x : x # id)
CompOf(key) == CHOOSE c \in Range(list) : c.KEY = key

\* The inner loop is about to call Component.resolve, and that call throws
Resolving == pc = "ents" /\ todo # <<>>
Thrown ==
    resolve(components[ci], Head(todo), d[Head(todo)].data, out[Head(todo)], passed).thrown
Fails == Resolving /\ Thrown # NoThrow

\* The last Component.resolve call threw and its catch block has run
JustEvicted ==
    /\ calls # <<>>
    /\ calls[Len(calls)][2] \in DOMAIN failed
    /\ failed[calls[Len(calls)][2]] = Len(calls)
LastId == calls[Len(calls)][2]

\* The trigger of component key fired for id in call number i
FiredAt(i, key, id) ==
    /\ calls[i] = <<key, id>>
    /\ key \in DOMAIN FirstRecord(id).data
FiredBefore(i, key, id) == \E j \in 1..(i - 1) : FiredAt(j, key, id)

\* C1: after resolveEntities returns, the keys of the manifest are exactly the
\* distinct input ids for which no Component.resolve call threw.
C1_ManifestKeys ==
    pc = "done" => DOMAIN out = InputIds \ DOMAIN failed

\* A finished run in which one id failed and another survived
C1_Witness ==
    /\ pc = "done"
    /\ DOMAIN failed # {}
    /\ DOMAIN out # {}

\* C2: when Component.resolve throws for (C, id), the catch block appends one
\* error under id and leaves id out of the manifest, out of the id -> record
\* map and out of every passed-set, passed[C.KEY] and the earlier ones included.
C2_EvictionStep ==
    [][Fails =>
        LET k == Head(todo)
            before == ErrorsOf(errors, k)
        IN /\ k \in DOMAIN errors'
           /\ Len(errors'[k]) = Len(before) + 1
           /\ SubSeq(errors'[k], 1, Len(before)) = before
           /\ k \notin DOMAIN out'
           /\ k \notin DOMAIN d'
           /\ DOMAIN passed' = DOMAIN passed
           /\ components[ci].KEY \in DOMAIN passed'
           /\ \A key \in DOMAIN passed' : k \notin Range(passed'[key])]_vars

\* A failure has just been handled for an id whose trigger had fired for an
\* earlier component, so the id had been in an earlier passed-set
C2_Witness ==
    /\ JustEvicted
    /\ \E i \in 1..(Len(calls) - 1) :
          /\ FiredAt(i, calls[i][1], LastId)
          /\ calls[i][1] # calls[Len(calls)][1]
    /\ \A key \in DOMAIN passed : LastId \notin Range(passed[key])

\* C3: an evicted id never again is a key of the manifest nor waits in the
\* snapshot of a pass, no Component.resolve call is made for it after the call
\* that threw, and it is not in the returned manifest.
C3_EvictionPermanent ==
    \A k \in DOMAIN failed :
        /\ k \notin DOMAIN out
        /\ k \notin Range(todo)
        /\ \A i \in (failed[k] + 1)..Len(calls) : calls[i][2] # k

\* A finished run in which a component wrote to an id, a later component
\* failed for it, and calls for other ids or components followed
C3_Witness ==
    /\ pc = "done"
    /\ \E k \in DOMAIN failed :
          /\ failed[k] < Len(calls)
          /\ \E i \in 1..(failed[k] - 1) :
                /\ FiredAt(i, calls[i][1], k)
                /\ FirstRecord(k).data[calls[i][1]] = FirstRecord(k).name

\* C4: the catch block changes nothing of any other id: its manifest entry, its
\* raw record, its membership in every passed-set and its error list stay as
\* they were, and the loops go on with the rest of the snapshot and with the
\* later components.
C4_EvictionLocal ==
    [][Fails =>
        LET k == Head(todo)
        IN /\ \A x \in (InputIds \ {k}) :
                 /\ (x \in DOMAIN out') = (x \in DOMAIN out)
                 /\ x \in DOMAIN out => out'[x] = out[x]
                 /\ (x \in DOMAIN d') = (x \in DOMAIN d)
                 /\ x \in DOMAIN d => d'[x] = d[x]
                 /\ (x \in DOMAIN errors') = (x \in DOMAIN errors)
                 /\ x \in DOMAIN errors => errors'[x] = errors[x]
           /\ DOMAIN passed' = DOMAIN passed
           /\ \A key \in DOMAIN passed :
                 Others(passed'[key], k) = Others(passed[key], k)
           /\ todo' = Tail(todo)
           /\ components' = components
           /\ IF Tail(todo) = <<>>
              THEN pc' = "pass" /\ ci' = ci + 1
              ELSE pc' = "ents" /\ ci' = ci]_vars

\* A failure has just been handled while another id holds output, is in a
\* passed-set and still waits in the snapshot of this pass
C4_Witness ==
    /\ JustEvicted
    /\ pc = "ents"
    /\ \E x \in DOMAIN out :
          /\ x \in Range(todo)
          /\ out[x] # EmptyMap
          /\ \E key \in DOMAIN passed : x \in Range(passed[key])

\* ---- dependency cycles among the registered components
DependsOn(a, b) == b \in Range(dependencies(CompOf(a)))
RECURSIVE Path(_, _, _)
Path(a, b, n) ==
    \/ DependsOn(a, b)
    \/ n > 1 /\ \E c \in ListKeys : DependsOn(a, c) /\ Path(c, b, n - 1)
HasCycle == \E a \in ListKeys : Path(a, a, Len(list))

\* C7: when the registered components contain a dependency cycle, no
\* Component.resolve call is made and resolveEntities returns no manifest of
\* entities processed with a partial component order.
C7_CycleAborts ==
    HasCycle => (calls = <<>> /\ ~(pc = "done" /\ DOMAIN out # {}))

\* ---- duplicate ids
IsDuplicateMsg(m) == m[1] = "Duplicate id"
LaterIndexes(id) ==
    SelectSeq([i \in 1..Len(ent) |-> i],
              LAMBDA i : ent[i].id = id /\ i # FirstIndex(id))
ExpectedDuplicates(id) ==
    [j \in 1..Len(LaterIndexes(id)) |->
        <<"Duplicate id", id, ent[LaterIndexes(id)[j]].name, FirstRecord(id).name>>]

\* C8: of the records sharing an id the first one is kept and resolved, each
\* later one adds exactly one duplicate-id error under the id, and unless a
\* resolution fails the manifest has the id with values of the first record.
C8_FirstRecordWins ==
    pc \in {"pass", "ents", "done"} =>
        \A id \in InputIds :
            /\ id \in DOMAIN d => d[id] = FirstRecord(id)
            /\ SelectSeq(ErrorsOf(errors, id), IsDuplicateMsg) = ExpectedDuplicates(id)
            /\ id \notin DOMAIN failed =>
                  /\ id \in DOMAIN out
                  /\ \A key \in DOMAIN out[id] :
                        /\ key \in DOMAIN FirstRecord(id).data
                        /\ out[id][key] = FirstRecord(id).data[key]

\* A finished run on two records of one id with different facets: the id is
\* in the manifest with output, and has its duplicate-id error
C8_Witness ==
    /\ pc = "done"
    /\ Len(ent) = 2
    /\ ent[1].id = ent[2].id
    /\ DOMAIN ent[1].data # DOMAIN ent[2].data
    /\ ent[2].data # EmptyMap
    /\ ent[1].id \in DOMAIN out
    /\ out[ent[1].id] # EmptyMap
    /\ Len(ErrorsOf(errors, ent[1].id)) = 1

\* ---- requirement check
MissingReqs(i) ==
    SelectSeq(CompOf(calls[i][1]).REQUIRES,
              LAMBDA r : ~FiredBefore(i, r, calls[i][2]))
RequirementErrors(id, key) ==
    {r \in Keys : RequiresMsg(id, r, key) \in Range(ErrorsOf(errors, id))}

\* C9 as stated: when C's trigger fired for id, every key r of C.REQUIRES whose
\* trigger did not fire for id is named, with C.KEY, by a requirement error
\* under id, and id is not in the manifest; when all fired there is no
\* requirement error.
C9_EveryMissingKeyNamed ==
    \A i \in 1..Len(calls) :
        LET key == calls[i][1]
            id == calls[i][2]
        IN FiredAt(i, key, id) =>
             /\ \A r \in Range(MissingReqs(i)) :
                   /\ id \notin DOMAIN out
                   /\ r \in RequirementErrors(id, key)
             /\ MissingReqs(i) = <<>> => RequirementErrors(id, key) = {}

\* C9 (amended): when C's trigger fired for id and some key of C.REQUIRES did
\* not fire for id, id is not in the manifest and the errors of id hold one
\* requirement error for C.KEY, naming the first such key in the order of
\* C.REQUIRES; when every key fired there is no requirement error for C.KEY.
C9_FirstMissingKeyNamed ==
    \A i \in 1..Len(calls) :
        LET key == calls[i][1]
            id == calls[i][2]
        IN FiredAt(i, key, id) =>
             /\ MissingReqs(i) # <<>> =>
                   /\ id \notin DOMAIN out
                   /\ RequirementErrors(id, key) = {MissingReqs(i)[1]}
             /\ MissingReqs(i) = <<>> => RequirementErrors(id, key) = {}

\* A finished run in which a trigger fired for an id that had passed the
\* first key of REQUIRES but not the second
C9_Witness ==
    /\ pc = "done"
    /\ \E i \in 1..Len(calls) :
          /\ FiredAt(i, calls[i][1], calls[i][2])
          /\ Len(CompOf(calls[i][1]).REQUIRES) = 2
          /\ MissingReqs(i) = <<CompOf(calls[i][1]).REQUIRES[2]>>
          /\ calls[i][2] \notin DOMAIN out

\* ---- two calls in one process
Twice(errs) == [k \in DOMAIN errs |-> errs[k] \o errs[k]]

\* The second call returns
SecondReturn == pc = "pass" /\ pc' = "done" /\ run = 2

Permutation(s, t) ==
    /\ Len(s) = Len(t)
    /\ \A x \in Range(s) \cup Range(t) :
          Cardinality({i \in 1..Len(s) : s[i] = x})
             = Cardinality({i \in 1..Len(t) : t[i] = x})

\* C16: when the dependencies of the registered components (WAIT_FOR,
\* REQUIRES, and the ones HOIST and SINK imply) contain no cycle, the order
\* Component.all returns holds every registered component exactly once, also
\* when a WAIT_FOR or REQUIRES key is the KEY of no registered component.
C16_EveryComponentOnce ==
    (pc = "sorted" /\ ~HasCycle) => Permutation(components, list)

\* A call of Component.all is made after an earlier one
SortAgain == pc = "sorted" /\ pc' = "sorted" /\ sorts' = sorts + 1

NextComp == components[ci]
NextId == Head(todo)
NextData == d[NextId].data
TriggerFires == Resolving /\ NextComp.KEY \in DOMAIN NextData
TriggerFalse == Resolving /\ NextComp.KEY \notin DOMAIN NextData

\* C11: after the run, for every id of the manifest and every component with
\* the default hooks that resolveEntities stepped through: if the raw record
\* has C.KEY with a defined value, manifest[id][C.KEY] is that value, and
\* otherwise manifest[id] has no key C.KEY.
C11_DefaultPassthrough ==
    pc = "done" =>
        \A id \in DOMAIN out : \A j \in 1..Len(components) :
            LET c == components[j]
                rec == FirstRecord(id).data
            IN c.process = "default" =>
                 IF c.KEY \in DOMAIN rec /\ rec[c.KEY] # Undefined
                 THEN c.KEY \in DOMAIN out[id] /\ out[id][c.KEY] = rec[c.KEY]
                 ELSE c.KEY \notin DOMAIN out[id]

\* A finished run with default hooks: a surviving id has the value of one
\* facet in the manifest, an undefined value under another facet that is not
\* in the manifest, and a third component ran for which it has no key
C11_Witness ==
    /\ pc = "done"
    /\ Len(components) = 3
    /\ components[1].process = "default"
    /\ \E id \in DOMAIN out :
          LET rec == FirstRecord(id).data
          IN /\ \E k \in DOMAIN rec : rec[k] = Undefined /\ k \notin DOMAIN out[id]
             /\ \E k \in DOMAIN rec : rec[k] = "bad" /\ out[id][k] = "bad"
             /\ \E k \in ListKeys : k \notin DOMAIN rec

\* C12: a Component.resolve call whose trigger is false changes nothing: the
\* passed-sets, the manifest, the error map and the id -> record map stay as
\* they were, so the id is not evicted and no requirement error is recorded
\* whatever C.REQUIRES holds.
C12_TriggerFalseNoChange ==
    [][TriggerFalse =>
          /\ passed' = passed
          /\ out' = out
          /\ errors' = errors
          /\ d' = d
          /\ okeys' = okeys
          /\ failed' = failed]_vars

\* The last call had a false trigger for a component with a key in REQUIRES
\* that never fired for the id, and the id is still in the manifest
C12_Witness ==
    /\ calls # <<>>
    /\ LET key == calls[Len(calls)][1]
       IN /\ key \notin DOMAIN FirstRecord(LastId).data
          /\ \E r \in Range(CompOf(key).REQUIRES) :
                ~FiredBefore(Len(calls), r, LastId)
          /\ LastId \in DOMAIN out
          /\ LastId \notin DOMAIN errors

\* The trigger of call i fired for an undefined value and the call did not throw
PassedUndefined(i) ==
    /\ FiredAt(i, calls[i][1], calls[i][2])
    /\ FirstRecord(calls[i][2]).data[calls[i][1]] = Undefined
    /\ calls[i][2] \in DOMAIN failed => failed[calls[i][2]] # i

\* C13: when the trigger fires, the requirements hold and process returns
\* undefined, the call leaves the manifest, the error map and the id -> record
\* map as they were and appends the id to passed[C.KEY]; no later component is
\* ever refused for that id for want of C.KEY.
C13_UndefinedPassesUnwritten ==
    /\ [][(/\ TriggerFires
           /\ Thrown = NoThrow
           /\ process(NextComp, NextData[NextComp.KEY]).value = Undefined) =>
              /\ out' = out
              /\ errors' = errors
              /\ d' = d
              /\ passed' = [passed EXCEPT ![NextComp.KEY] = Append(@, NextId)]]_vars
    /\ [](\A i \in 1..Len(calls) :
             PassedUndefined(i) =>
                \A c \in Range(list) :
                   RequiresMsg(calls[i][2], calls[i][1], c.KEY)
                      \notin Range(ErrorsOf(errors, calls[i][2])))

\* A finished run in which a component fired for an undefined value and wrote
\* nothing, and a later component that REQUIRES its KEY fired for the same id
\* and wrote its value
C13_Witness ==
    /\ pc = "done"
    /\ \E i, j \in 1..Len(calls) :
          /\ i < j
          /\ PassedUndefined(i)
          /\ calls[j][2] = calls[i][2]
          /\ FiredAt(j, calls[j][1], calls[j][2])
          /\ calls[i][1] \in Range(CompOf(calls[j][1]).REQUIRES)
          /\ calls[i][2] \in DOMAIN out
          /\ calls[i][1] \notin DOMAIN out[calls[i][2]]
          /\ calls[j][1] \in DOMAIN out[calls[i][2]]

\* ---- the passes of resolveEntities
PosOf(key) == CHOOSE j \in 1..Len(components) : components[j].KEY = key
CallsOf(p, id) == {i \in 1..Len(calls) : calls[i] = <<components[p].KEY, id>>}

\* id is in the manifest when the pass of components[p] starts: no call of an
\* earlier component threw for it
LiveAt(id, p) == id \in DOMAIN failed => PosOf(calls[failed[id]][1]) >= p

\* C14: the components are stepped through in the order Component.all
\* returned; the calls of one component all come before the calls of the next
\* one; and in every finished pass each id that was in the manifest when the
\* pass started has exactly one call, every other id none.
C14_PassesInOrder ==
    pc \in {"pass", "ents", "done"} =>
        /\ components = all
        /\ \A i, j \in 1..Len(calls) :
              i < j => PosOf(calls[i][1]) <= PosOf(calls[j][1])
        /\ \A i \in 1..Len(calls) : PosOf(calls[i][1]) <= ci
        /\ \A p \in 1..Len(components) : \A id \in InputIds :
              /\ Cardinality(CallsOf(p, id)) <= 1
              /\ ~LiveAt(id, p) => CallsOf(p, id) = {}
              /\ (p < ci /\ LiveAt(id, p)) => CallsOf(p, id) # {}

\* A finished run of three components over two ids, one of them evicted in
\* the second pass: two calls, two calls, one call
C14_Witness ==
    /\ pc = "done"
    /\ Len(components) = 3
    /\ Len(calls) = 5
    /\ \E id \in DOMAIN failed : PosOf(calls[failed[id]][1]) = 2

\* What Component.resolve leaves in the passed-sets for the call about to be made
PassedAtThrow == resolve(NextComp, NextId, NextData, out[NextId], passed).passed
IsRequiresMsg(m) == m[2] = "does not contain"
FailsRequirement == Fails /\ IsRequiresMsg(Thrown[1])

\* C15: a Component.resolve call that fails the requirement check has not
\* added the id to passed[C.KEY]: the id is recorded only after every key of
\* C.REQUIRES was found.
C15_CheckedBeforeRecorded ==
    FailsRequirement => NextId \notin Range(PassedAtThrow[NextComp.KEY])

\* ---- invariants of the run
NoDuplicates(s) == \A i, j \in 1..Len(s) : i # j => s[i] # s[j]

\* C18: between the calls of Component.resolve, the manifest and the id ->
\* record map have the same keys, every id of a passed-set is a key of the
\* manifest, and no passed-set holds an id twice.
C18_KeysAgree ==
    pc \in {"pass", "ents", "done"} =>
        /\ DOMAIN out = DOMAIN d
        /\ \A key \in DOMAIN passed :
              /\ Range(passed[key]) \subseteq DOMAIN out
              /\ NoDuplicates(passed[key])

\* An id whose trigger had fired, so that it had been pushed to the
\* passed-set, has just been evicted while another id is in a passed-set of an
\* earlier component
C18_Witness ==
    /\ JustEvicted
    /\ FiredAt(Len(calls), calls[Len(calls)][1], LastId)
    /\ DOMAIN out # {}
    /\ \E key \in DOMAIN passed :
          key # calls[Len(calls)][1] /\ passed[key] # <<>>

IsTypeErrorMsg(m) == m[1] = "TypeError"

\* C19: whenever a trigger fires, every key of C.REQUIRES has its passed-set,
\* whatever was registered; no error of reading a missing passed-set is ever
\* recorded.
C19_RequiredSetsInitialised ==
    /\ TriggerFires => Range(NextComp.REQUIRES) \subseteq DOMAIN passed
    /\ \A id \in DOMAIN errors : SelectSeq(errors[id], IsTypeErrorMsg) = <<>>

\* A trigger has fired for the component registered first, which REQUIRES the
\* KEY of the one registered last, and the id passed the check
C19_Witness ==
    /\ calls # <<>>
    /\ FiredAt(Len(calls), calls[Len(calls)][1], LastId)
    /\ Len(list) = 3
    /\ list[1].KEY = calls[Len(calls)][1]
    /\ list[1].REQUIRES = <<list[3].KEY>>
    /\ LastId \in DOMAIN out

NotDuplicateMsg(m) == ~IsDuplicateMsg(m)

\* C20: in one run every step keeps the errors each id has and only appends;
\* an id has at most one error that is not a duplicate-id error, and it is the
\* last of its errors; at the end an id with such an error is not in the
\* manifest and an id with duplicate-id errors only is.
C20_ErrorsAppendOnly ==
    /\ [][\A k \in DOMAIN errors :
             /\ k \in DOMAIN errors'
             /\ Len(errors'[k]) >= Len(errors[k])
             /\ SubSeq(errors'[k], 1, Len(errors[k])) = errors[k]]_vars
    /\ [](\A id \in DOMAIN errors :
             LET e == errors[id]
                 other == SelectSeq(e, NotDuplicateMsg)
             IN /\ Len(other) <= 1
                /\ Len(other) = 1 => NotDuplicateMsg(e[Len(e)])
                /\ pc = "done" => (Len(other) = 1 <=> id \notin DOMAIN out))

\* A finished run in which an id got a duplicate-id error and then a
\* requirement error, and is not in the manifest
C20_Witness ==
    /\ pc = "done"
    /\ \E id \in DOMAIN errors :
          /\ Len(errors[id]) = 2
          /\ IsDuplicateMsg(errors[id][1])
          /\ IsRequiresMsg(errors[id][2])
          /\ id \notin DOMAIN out

====
